---- MODULE Spec2Model ----
(***************************************************************************)
(* Model of src/model.py: the GTM_SM module (Generative Temporal Model     *)
(* with Spatial Memory).                                                   *)
(*                                                                         *)
(*   Spec         : __init__ and forward called by one thread              *)
(*   SpecConc     : forward called by two threads on the same object       *)
(*   SpecWalk     : random_walk, one statement group per action            *)
(*   SpecWalkFair : random_walk with fair draws in the sampling loop       *)
(*   SpecMix      : the mixture weights and the choice of a component      *)
(***************************************************************************)
EXTENDS Integers, Sequences, FiniteSets, TLC

VARIABLES
    \* ---- GTM_SM fields (set by __init__, total_dim rewritten by forward)
    constructed,                \* __init__ has run
    observe_dim,
    total_dim,
    k_nearest_neighbour,
    training,                   \* nn.Module.training
    \* ---- per thread: a forward call and its locals
    pc,                         \* the line the call is about to execute
    x_size,                     \* height and width of the input images
    origin_total_dim,
    origin_bound,               \* origin_total_dim has been assigned
    walk_dim,                   \* columns of the arrays random_walk returned
    pred_len,                   \* len(st_prediction_list)
    pred_encoded,               \* zt_mean_prediction_tensor has been assigned
    \* ---- history of the calls (not program state)
    cfg_total_dim,              \* the total_dim given to __init__
    entry_total_dim,            \* total_dim when the thread's call began
    overlap_seen,               \* a call began while another was in progress
    raise_seen,                 \* some call has raised
    mode_raced,                 \* training was changed while a call was in progress
    \* ---- the mixture weights of one prediction timestep (line 273-293)
    delta,                      \* self.delta, in the unit of dk2
    mpc,
    dk2,                        \* squared distances of the K neighbours
    wk,                         \* 1 / (dk2 + delta), held as its denominator
    normalized_wk,
    cumsum_normalized_wk,
    rand_sample_value,
    sample_knn,
    \* ---- locals of random_walk
    wpc,                        \* position in random_walk
    index_sample,               \* outer loop variable (line 309)
    t,                          \* inner loop variable (line 311)
    position,                   \* np.zeros((batch_size, s_dim, total_dim))
    action_selection,           \* np.zeros((batch_size, total_dim))
    action_one_hot_value,       \* np.zeros((batch_size, a_dim, total_dim))
    new_continue_action_flag,
    need_to_stop,
    action_random_selection,
    action_duriation,
    \* ---- the crops forward takes along the walk (line 171-179, 193-201)
    index_mask_pixels,          \* per sample and timestep, the pixels the mask selects
    \* ---- history of the current action segment (not program state)
    seg_start,                  \* timestep at which the segment was drawn
    seg_dur,                    \* the duration that was drawn for it
    seg_hit                     \* timestep of the segment's boundary hit, 0 if none

walkVars == <<wpc, index_sample, t, position, action_selection,
              action_one_hot_value, new_continue_action_flag, need_to_stop,
              action_random_selection, action_duriation, index_mask_pixels,
              seg_start, seg_dur, seg_hit>>

cfgVars == <<constructed, observe_dim, k_nearest_neighbour, cfg_total_dim>>

frameVars == <<x_size, origin_total_dim, origin_bound, walk_dim, pred_len,
               pred_encoded, entry_total_dim>>

histVars == <<overlap_seen, mode_raced>>

fwdVars == <<cfgVars, total_dim, training, pc, frameVars, histVars, raise_seen>>

mixVars == <<delta, mpc, dk2, wk, normalized_wk, cumsum_normalized_wk,
             rand_sample_value, sample_knn>>

vars == <<fwdVars, walkVars, mixVars>>

----------------------------------------------------------------------------
(* Bounds of the model *)

\* horizon (self.total_dim) used when random_walk is explored on its own
MaxHorizon == 5
\* horizon used when the termination of random_walk is checked under fairness
FairHorizon == 3
\* most neighbours (self.k_nearest_neighbour) tried for the mixture weights
MaxK == 3
\* largest squared distance and largest delta tried, in the same unit
MaxDist2 == 2
MaxDelta == 2
\* steps into which [0, 1] is divided for the rounded weights and the draw
Resolution == 8
\* largest value drawn for np.random.poisson(2, 1), whose support is unbounded
MaxDuration == 3

(* Program constants *)

\* batch_size default of __init__
batch_size == 1
\* a_dim default of __init__: four moves and "stop"
a_dim == 5
\* np.random.randint(0, 9, size=(2)): exclusive upper end of a coordinate
GridSize == 9
\* the label recorded for a step that does not move
StopLabel == 4
\* index_mask[index_sample, :, 3 * h:3 * h + 8, 3 * w:3 * w + 8]: the step
\* of the crop window per grid cell, its side, and the colour channels
PatchStride == 3
PatchSize == 8
Channels == 3

\* self.total_dim = 512 of an inference call
InferenceTotalDim == 512
\* torch.zeros((self.batch_size, 3, 32, 32)): height and width of the mask
ImageSize == 32
\* total_dim and observe_dim defaults of __init__
DefaultTotalDim == 288
DefaultObserveDim == 256
\* k_nearest_neighbour default of __init__
DefaultK == 5

\* the threads that may call forward on the one model object
Threads == {1, 2}

\* arguments tried for the constructor and sizes tried for the input images
ObserveDims == {0, 3, DefaultObserveDim}
TotalDims == {6, DefaultTotalDim}
NeighbourCounts == {2, DefaultK}
InputSizes == {16, ImageSize}

GridMax == GridSize - 1
Samples == 0 .. (batch_size - 1)
Moves == 0 .. 3

----------------------------------------------------------------------------
(* Parts of the state that are at rest *)

\* random_walk is not running
IdleWalk ==
    /\ wpc = "idle"
    /\ index_sample = 0
    /\ t = 0
    /\ position = [s \in Samples |-> <<>>]
    /\ action_selection = [s \in Samples |-> <<>>]
    /\ action_one_hot_value = [s \in Samples |-> <<>>]
    /\ new_continue_action_flag = FALSE
    /\ need_to_stop = FALSE
    /\ action_random_selection = 0
    /\ action_duriation = 0
    /\ index_mask_pixels = [s \in Samples |-> <<>>]
    /\ seg_start = 0
    /\ seg_dur = 0
    /\ seg_hit = 0

\* no mixture weights are being computed
IdleMix ==
    /\ delta = 1
    /\ mpc = "idle"
    /\ dk2 = <<>>
    /\ wk = <<>>
    /\ normalized_wk = <<>>
    /\ cumsum_normalized_wk = <<>>
    /\ rand_sample_value = 0
    /\ sample_knn = 0

----------------------------------------------------------------------------
(* random_walk *)

\* The rejection test of the sampling loop: the action points out of the
\* grid from the previous position <<h, w>>.
Rejected_SwappedAxes(a, h, w) ==
    \/ (a = 0 /\ h = GridMax)
    \/ (a = 1 /\ h = 0)
    \/ (a = 2 /\ w = 0)
    \/ (a = 3 /\ w = GridMax)

Rejected_AnyEdge(a, h, w) ==
    \/ (a = 0 \/ w = GridMax)
    \/ (a = 1 /\ w = 0)
    \/ (a = 2 /\ h = 0)
    \/ (a = 3 /\ h = GridMax)

Rejected(a, h, w) ==
    \/ (a = 0 /\ w = GridMax)
    \/ (a = 1 /\ w = 0)
    \/ (a = 2 /\ h = 0)
    \/ (a = 3 /\ h = GridMax)

\* The boundary test made by each step of a segment before it moves.
HitsBoundary_Never(a, h, w) == FALSE

HitsBoundary(a, h, w) ==
    IF a = 0 THEN w = GridMax
    ELSE IF a = 1 THEN w = 0
    ELSE IF a = 2 THEN h = 0
    ELSE h = GridMax

\* np.array([0, 1]), [0, -1], [-1, 0], [1, 0]
Displacement(a) ==
    IF a = 0 THEN <<0, 1>>
    ELSE IF a = 1 THEN <<0, -1>>
    ELSE IF a = 2 THEN <<-1, 0>>
    ELSE <<1, 0>>

\* One timestep t >= 1 of a segment: the new position, the recorded label
\* and the new need_to_stop, from the previous position prev.
StepOutcome_DrainUnwritten(a, dur, stop, prev) ==
    IF dur > 0 /\ ~stop
    THEN IF HitsBoundary(a, prev[1], prev[2])
         THEN [pos |-> prev, label |-> StopLabel, stop |-> TRUE]
         ELSE [pos |-> <<prev[1] + Displacement(a)[1], prev[2] + Displacement(a)[2]>>,
               label |-> a, stop |-> stop]
    ELSE [pos |-> <<0, 0>>, label |-> StopLabel, stop |-> stop]

StepOutcome(a, dur, stop, prev) ==
    IF dur > 0 /\ ~stop
    THEN IF HitsBoundary(a, prev[1], prev[2])
         THEN [pos |-> prev, label |-> StopLabel, stop |-> TRUE]
         ELSE [pos |-> <<prev[1] + Displacement(a)[1], prev[2] + Displacement(a)[2]>>,
               label |-> a, stop |-> stop]
    ELSE [pos |-> prev, label |-> StopLabel, stop |-> stop]

\* action_one_hot_value_numpy[index_sample, action_selection[index_sample], range(total_dim)] = 1
OneHot(sel) ==
    [s \in Samples |-> [a \in 0 .. (a_dim - 1) |->
        [k \in 0 .. (total_dim - 1) |-> IF sel[s][k] = a THEN 1 ELSE 0]]]

InitWalkOf(horizon) ==
    /\ constructed = TRUE
    /\ observe_dim = 1
    /\ total_dim = horizon
    /\ k_nearest_neighbour = 1
    /\ training = TRUE
    /\ pc = [c \in Threads |-> "idle"]
    /\ x_size = [c \in Threads |-> ImageSize]
    /\ origin_total_dim = [c \in Threads |-> 0]
    /\ origin_bound = [c \in Threads |-> FALSE]
    /\ walk_dim = [c \in Threads |-> 0]
    /\ pred_len = [c \in Threads |-> 0]
    /\ pred_encoded = [c \in Threads |-> FALSE]
    /\ cfg_total_dim = horizon
    /\ entry_total_dim = [c \in Threads |-> horizon]
    /\ overlap_seen = FALSE
    /\ raise_seen = FALSE
    /\ mode_raced = FALSE
    /\ IdleMix
    /\ wpc = "sample"
    /\ index_sample = 0
    /\ t = 0
    /\ position = [s \in Samples |-> [k \in 0 .. (horizon - 1) |-> <<0, 0>>]]
    /\ action_selection = [s \in Samples |-> [k \in 0 .. (horizon - 1) |-> 0]]
    /\ action_one_hot_value =
           [s \in Samples |-> [a \in 0 .. (a_dim - 1) |->
               [k \in 0 .. (horizon - 1) |-> 0]]]
    /\ new_continue_action_flag = FALSE
    /\ need_to_stop = FALSE
    /\ action_random_selection = 0
    /\ action_duriation = 0
    /\ index_mask_pixels = [s \in Samples |-> <<>>]
    /\ seg_start = 0
    /\ seg_dur = 0
    /\ seg_hit = 0

InitWalk == InitWalkOf(MaxHorizon)

InitWalkFair == InitWalkOf(FairHorizon)

\* line 309-310: the next sample starts, or the sample loop is over
BeginSample ==
    /\ wpc = "sample"
    /\ index_sample < batch_size
    /\ new_continue_action_flag' = TRUE
    /\ t' = 0
    /\ wpc' = "top"
    /\ UNCHANGED <<fwdVars, mixVars, index_mask_pixels,
                   index_sample, position, action_selection,
                   action_one_hot_value, need_to_stop, action_random_selection,
                   action_duriation, seg_start, seg_dur, seg_hit>>

\* line 312-313: the first timestep draws the position
InitialPosition ==
    /\ wpc = "top"
    /\ t < total_dim
    /\ t = 0
    /\ \E h \in 0 .. (GridSize - 1), w \in 0 .. (GridSize - 1) :
          position' = [position EXCEPT ![index_sample][t] = <<h, w>>]
    /\ t' = t + 1
    /\ UNCHANGED <<fwdVars, mixVars, index_mask_pixels,
                   wpc, index_sample, action_selection,
                   action_one_hot_value, new_continue_action_flag, need_to_stop,
                   action_random_selection, action_duriation,
                   seg_start, seg_dur, seg_hit>>

\* line 315-317: a later timestep with the flag set starts a new segment
BeginSegment ==
    /\ wpc = "top"
    /\ t < total_dim
    /\ t > 0
    /\ new_continue_action_flag
    /\ new_continue_action_flag' = FALSE
    /\ need_to_stop' = FALSE
    /\ wpc' = "while"
    /\ UNCHANGED <<fwdVars, mixVars, index_mask_pixels,
                   index_sample, t, position, action_selection,
                   action_one_hot_value, action_random_selection,
                   action_duriation, seg_start, seg_dur, seg_hit>>

\* line 315: a later timestep with the flag clear continues the segment
ContinueSegment ==
    /\ wpc = "top"
    /\ t < total_dim
    /\ t > 0
    /\ ~new_continue_action_flag
    /\ wpc' = "apply"
    /\ UNCHANGED <<fwdVars, mixVars, index_mask_pixels,
                   index_sample, t, position, action_selection,
                   action_one_hot_value, new_continue_action_flag, need_to_stop,
                   action_random_selection, action_duriation,
                   seg_start, seg_dur, seg_hit>>

\* line 318-323: one iteration of the sampling loop that does not break
DrawRejected ==
    /\ wpc = "while"
    /\ \E a \in Moves :
          /\ Rejected(a, position[index_sample][t - 1][1],
                         position[index_sample][t - 1][2])
          /\ action_random_selection' = a
    /\ UNCHANGED <<fwdVars, mixVars, index_mask_pixels,
                   wpc, index_sample, t, position, action_selection,
                   action_one_hot_value, new_continue_action_flag, need_to_stop,
                   action_duriation, seg_start, seg_dur, seg_hit>>

\* line 318-324: the iteration that breaks
DrawAccepted ==
    /\ wpc = "while"
    /\ \E a \in Moves :
          /\ ~Rejected(a, position[index_sample][t - 1][1],
                          position[index_sample][t - 1][2])
          /\ action_random_selection' = a
    /\ wpc' = "poisson"
    /\ UNCHANGED <<fwdVars, mixVars, index_mask_pixels,
                   index_sample, t, position, action_selection,
                   action_one_hot_value, new_continue_action_flag, need_to_stop,
                   action_duriation, seg_start, seg_dur, seg_hit>>

\* line 325
DrawDuration ==
    /\ wpc = "poisson"
    /\ \E d \in 0 .. MaxDuration :
          /\ action_duriation' = d
          /\ seg_dur' = d
    /\ seg_start' = t
    /\ seg_hit' = 0
    /\ wpc' = "apply"
    /\ UNCHANGED <<fwdVars, mixVars, index_mask_pixels,
                   index_sample, t, position, action_selection,
                   action_one_hot_value, new_continue_action_flag, need_to_stop,
                   action_random_selection>>

\* line 327-365 with the counter held while the walk is stopped at a boundary
ApplyStep_CounterHeldOnStop ==
    /\ wpc = "apply"
    /\ LET out == StepOutcome(action_random_selection, action_duriation,
                              need_to_stop, position[index_sample][t - 1])
           left == IF out.stop THEN action_duriation ELSE action_duriation - 1
       IN /\ position' = [position EXCEPT ![index_sample][t] = out.pos]
          /\ action_selection' =
                 [action_selection EXCEPT ![index_sample][t] = out.label]
          /\ need_to_stop' = out.stop
          /\ seg_hit' = IF out.stop /\ ~need_to_stop THEN t ELSE seg_hit
          /\ action_duriation' = left
          /\ new_continue_action_flag' =
                 IF left <= 0 THEN TRUE ELSE new_continue_action_flag
    /\ t' = t + 1
    /\ wpc' = "top"
    /\ UNCHANGED <<fwdVars, mixVars, index_mask_pixels,
                   index_sample, action_one_hot_value,
                   action_random_selection, seg_start, seg_dur>>

\* line 327-365 with the test of line 364 as action_duriation < 0
ApplyStep_FlagBelowZero ==
    /\ wpc = "apply"
    /\ LET out == StepOutcome(action_random_selection, action_duriation,
                              need_to_stop, position[index_sample][t - 1])
       IN /\ position' = [position EXCEPT ![index_sample][t] = out.pos]
          /\ action_selection' =
                 [action_selection EXCEPT ![index_sample][t] = out.label]
          /\ need_to_stop' = out.stop
          /\ seg_hit' = IF out.stop /\ ~need_to_stop THEN t ELSE seg_hit
    /\ action_duriation' = action_duriation - 1
    /\ new_continue_action_flag' =
           IF action_duriation - 1 < 0 THEN TRUE ELSE new_continue_action_flag
    /\ t' = t + 1
    /\ wpc' = "top"
    /\ UNCHANGED <<fwdVars, mixVars, index_mask_pixels,
                   index_sample, action_one_hot_value,
                   action_random_selection, seg_start, seg_dur>>

\* line 327-365: the step itself, the decrement and the flag
ApplyStep ==
    /\ wpc = "apply"
    /\ LET out == StepOutcome(action_random_selection, action_duriation,
                              need_to_stop, position[index_sample][t - 1])
       IN /\ position' = [position EXCEPT ![index_sample][t] = out.pos]
          /\ action_selection' =
                 [action_selection EXCEPT ![index_sample][t] = out.label]
          /\ need_to_stop' = out.stop
          /\ seg_hit' = IF out.stop /\ ~need_to_stop THEN t ELSE seg_hit
    /\ action_duriation' = action_duriation - 1
    /\ new_continue_action_flag' =
           IF action_duriation - 1 <= 0 THEN TRUE ELSE new_continue_action_flag
    /\ t' = t + 1
    /\ wpc' = "top"
    /\ UNCHANGED <<fwdVars, mixVars, index_mask_pixels,
                   index_sample, action_one_hot_value,
                   action_random_selection, seg_start, seg_dur>>

\* line 311: the timestep loop of this sample is over
EndSample ==
    /\ wpc = "top"
    /\ t >= total_dim
    /\ index_sample' = index_sample + 1
    /\ wpc' = "sample"
    /\ UNCHANGED <<fwdVars, mixVars, index_mask_pixels,
                   t, position, action_selection,
                   action_one_hot_value, new_continue_action_flag, need_to_stop,
                   action_random_selection, action_duriation,
                   seg_start, seg_dur, seg_hit>>

\* line 367-373: the one-hot encoding and the return
ReturnWalk ==
    /\ wpc = "sample"
    /\ index_sample >= batch_size
    /\ action_one_hot_value' = OneHot(action_selection)
    /\ wpc' = "done"
    /\ UNCHANGED <<fwdVars, mixVars, index_mask_pixels,
                   index_sample, t, position, action_selection,
                   new_continue_action_flag, need_to_stop,
                   action_random_selection, action_duriation,
                   seg_start, seg_dur, seg_hit>>

\* a Python slice start:stop of an axis of length n, as the set of indices
\* it selects: a negative bound counts from the end, and both are clipped
SliceIndices(start, stop, n) ==
    LET from == IF start < 0 THEN (IF start + n < 0 THEN 0 ELSE start + n)
                ELSE (IF start > n THEN n ELSE start)
        upto == IF stop < 0 THEN (IF stop + n < 0 THEN 0 ELSE stop + n)
                ELSE (IF stop > n THEN n ELSE stop)
    IN from .. (upto - 1)

\* 3 * position_h_t, 3 * position_w_t
CropStart_Stride4(p) == 4 * p

CropStart(p) == PatchStride * p

\* the pixels of one sample set to one in index_mask for the position <<h, w>>
MaskPixels(pos) ==
    Channels
      * Cardinality(SliceIndices(CropStart(pos[1]), CropStart(pos[1]) + PatchSize, ImageSize))
      * Cardinality(SliceIndices(CropStart(pos[2]), CropStart(pos[2]) + PatchSize, ImageSize))

\* line 171-179 and 193-201: forward builds the mask of every timestep of
\* the walk, observation phase and prediction phase
CropWindows ==
    /\ wpc = "done"
    /\ index_mask_pixels' =
           [s \in Samples |-> [k \in 0 .. (total_dim - 1) |-> MaskPixels(position[s][k])]]
    /\ wpc' = "cropped"
    /\ UNCHANGED <<fwdVars, mixVars, index_sample, t, position, action_selection,
                   action_one_hot_value, new_continue_action_flag, need_to_stop,
                   action_random_selection, action_duriation,
                   seg_start, seg_dur, seg_hit>>

WalkProgress ==
    \/ BeginSample
    \/ InitialPosition
    \/ BeginSegment
    \/ ContinueSegment
    \/ DrawAccepted
    \/ DrawDuration
    \/ ApplyStep
    \/ EndSample
    \/ ReturnWalk
    \/ CropWindows

NextWalk ==
    \/ WalkProgress
    \/ DrawRejected

SpecWalk == InitWalk /\ [][NextWalk]_vars

\* The action is drawn uniformly at random, so an iteration that breaks is
\* not postponed for ever while one is possible.
SpecWalkFair == InitWalkFair /\ [][NextWalk]_vars /\ WF_vars(WalkProgress)

----------------------------------------------------------------------------
(* __init__ and forward *)

\* the object before __init__ has run; the fields hold the defaults
InitForward ==
    /\ constructed = FALSE
    /\ observe_dim = DefaultObserveDim
    /\ total_dim = DefaultTotalDim
    /\ k_nearest_neighbour = DefaultK
    /\ training = TRUE
    /\ pc = [c \in Threads |-> "idle"]
    /\ x_size = [c \in Threads |-> ImageSize]
    /\ origin_total_dim = [c \in Threads |-> 0]
    /\ origin_bound = [c \in Threads |-> FALSE]
    /\ walk_dim = [c \in Threads |-> 0]
    /\ pred_len = [c \in Threads |-> 0]
    /\ pred_encoded = [c \in Threads |-> FALSE]
    /\ cfg_total_dim = DefaultTotalDim
    /\ entry_total_dim = [c \in Threads |-> DefaultTotalDim]
    /\ overlap_seen = FALSE
    /\ raise_seen = FALSE
    /\ mode_raced = FALSE
    /\ IdleMix
    /\ IdleWalk

InCall(c) == pc[c] \notin {"idle", "returned", "raised"}

Goto(c, line) == pc' = [pc EXCEPT ![c] = line]

\* an exception leaves forward; nothing in forward catches it
Raise(c) ==
    /\ pc' = [pc EXCEPT ![c] = "raised"]
    /\ raise_seen' = TRUE

\* line 48-63: the arguments are stored as given
Construct ==
    /\ ~constructed
    /\ \E od \in ObserveDims, td \in TotalDims, k \in NeighbourCounts :
          /\ observe_dim' = od
          /\ total_dim' = td
          /\ k_nearest_neighbour' = k
          /\ cfg_total_dim' = td
    /\ constructed' = TRUE
    /\ training' = TRUE
    /\ UNCHANGED <<pc, frameVars, histVars, raise_seen, walkVars, mixVars>>

\* nn.Module.train(mode) / eval(), called by a thread between its calls
SetTraining(c) ==
    /\ constructed
    /\ pc[c] = "idle"
    /\ \E mode \in BOOLEAN :
          /\ training' = mode
          /\ mode_raced' =
                 (mode_raced \/ (mode # training /\ \E d \in Threads : InCall(d)))
    /\ UNCHANGED <<cfgVars, total_dim, pc, frameVars, overlap_seen, raise_seen,
                   walkVars, mixVars>>

\* line 94: thread c calls forward(x) with a fresh frame
Call(c) ==
    /\ constructed
    /\ pc[c] = "idle"
    /\ \E size \in InputSizes : x_size' = [x_size EXCEPT ![c] = size]
    /\ origin_total_dim' = [origin_total_dim EXCEPT ![c] = 0]
    /\ origin_bound' = [origin_bound EXCEPT ![c] = FALSE]
    /\ walk_dim' = [walk_dim EXCEPT ![c] = 0]
    /\ pred_len' = [pred_len EXCEPT ![c] = 0]
    /\ pred_encoded' = [pred_encoded EXCEPT ![c] = FALSE]
    /\ entry_total_dim' = [entry_total_dim EXCEPT ![c] = total_dim]
    /\ overlap_seen' = (overlap_seen \/ \E d \in Threads \ {c} : InCall(d))
    /\ Goto(c, "l95")
    /\ UNCHANGED <<cfgVars, total_dim, training, raise_seen, mode_raced, walkVars, mixVars>>

\* line 95-96 with the value saved after the overwrite of line 97
SaveOrigin_AfterOverwrite(c) ==
    /\ pc[c] = "l95"
    /\ IF ~training
       THEN /\ origin_total_dim' = [origin_total_dim EXCEPT ![c] = InferenceTotalDim]
            /\ origin_bound' = [origin_bound EXCEPT ![c] = TRUE]
            /\ Goto(c, "l97")
       ELSE /\ Goto(c, "l124")
            /\ UNCHANGED <<origin_total_dim, origin_bound>>
    /\ UNCHANGED <<cfgVars, total_dim, training, x_size, walk_dim, pred_len,
                   pred_encoded, entry_total_dim, histVars, raise_seen,
                   walkVars, mixVars>>

\* line 95-96
SaveOrigin(c) ==
    /\ pc[c] = "l95"
    /\ IF ~training
       THEN /\ origin_total_dim' = [origin_total_dim EXCEPT ![c] = total_dim]
            /\ origin_bound' = [origin_bound EXCEPT ![c] = TRUE]
            /\ Goto(c, "l97")
       ELSE /\ Goto(c, "l124")
            /\ UNCHANGED <<origin_total_dim, origin_bound>>
    /\ UNCHANGED <<cfgVars, total_dim, training, x_size, walk_dim, pred_len,
                   pred_encoded, entry_total_dim, histVars, raise_seen,
                   walkVars, mixVars>>

\* line 97
Overwrite(c) ==
    /\ pc[c] = "l97"
    /\ total_dim' = InferenceTotalDim
    /\ Goto(c, "l124")
    /\ UNCHANGED <<cfgVars, training, frameVars, histVars, raise_seen,
                   walkVars, mixVars>>

\* line 124: random_walk allocates and fills arrays of total_dim columns
RandomWalk(c) ==
    /\ pc[c] = "l124"
    /\ walk_dim' = [walk_dim EXCEPT ![c] = total_dim]
    /\ Goto(c, "l139")
    /\ UNCHANGED <<cfgVars, total_dim, training, x_size, origin_total_dim,
                   origin_bound, pred_len, pred_encoded, entry_total_dim,
                   histVars, raise_seen, walkVars, mixVars>>

\* line 139-168: torch.cat of an empty list raises (148, 167), and so does
\* an index past the columns random_walk made (143, 154, 161)
StateSequencesFail(c, horizon) ==
    \/ observe_dim < 1
    \/ (observe_dim >= 2 /\ observe_dim - 1 >= walk_dim[c])
    \/ horizon - observe_dim < 1
    \/ horizon - 1 >= walk_dim[c]

StateSequences(c) ==
    /\ pc[c] = "l139"
    /\ IF StateSequencesFail(c, total_dim)
       THEN /\ Raise(c)
            /\ UNCHANGED pred_len
       ELSE /\ pred_len' = [pred_len EXCEPT ![c] = total_dim - observe_dim]
            /\ Goto(c, "l171")
            /\ UNCHANGED raise_seen
    /\ UNCHANGED <<cfgVars, total_dim, training, x_size, origin_total_dim,
                   origin_bound, walk_dim, pred_encoded, entry_total_dim,
                   histVars, walkVars, mixVars>>

\* torch.masked_select(x, index_mask_bool): x must broadcast with the
\* (batch_size, 3, 32, 32) mask
ShapeFits(size) == size = ImageSize

\* line 171-225: the crops of the observation phase and, when training, of
\* the prediction phase
EncodeFail(c, horizon, train) ==
    \/ ~ShapeFits(x_size[c])
    \/ (train /\ horizon - observe_dim < 1)
    \/ (train /\ horizon - 1 >= walk_dim[c])

Encode(c) ==
    /\ pc[c] = "l171"
    /\ IF EncodeFail(c, total_dim, training)
       THEN /\ Raise(c)
            /\ UNCHANGED pred_encoded
       ELSE /\ pred_encoded' = [pred_encoded EXCEPT ![c] = training]
            /\ Goto(c, "l227")
            /\ UNCHANGED raise_seen
    /\ UNCHANGED <<cfgVars, total_dim, training, x_size, origin_total_dim,
                   origin_bound, walk_dim, pred_len, entry_total_dim,
                   histVars, walkVars, mixVars>>

\* line 227-297: np.zeros of a negative length raises (232), and so do an
\* index past st_prediction_list (234) and the tensors of the prediction
\* phase when line 191 skipped them (256)
MixtureFail(c, horizon, train) ==
    \/ horizon - observe_dim < 0
    \/ horizon - observe_dim > pred_len[c]
    \/ (train /\ ~pred_encoded[c] /\ horizon - observe_dim >= 1)

\* flanns.nn_index with more neighbours than indexed points: what pyflann
\* does with it is not this repository's code, so either outcome
MemoryAndMixture(c) ==
    /\ pc[c] = "l227"
    /\ IF MixtureFail(c, total_dim, training)
       THEN Raise(c)
       ELSE \/ /\ Goto(c, "l298")
               /\ UNCHANGED raise_seen
            \/ /\ k_nearest_neighbour > observe_dim
               /\ Raise(c)
    /\ UNCHANGED <<cfgVars, total_dim, training, frameVars, histVars,
                   walkVars, mixVars>>

\* line 298-299 without the assignment of line 299
Restore_Skipped(c) ==
    /\ pc[c] = "l298"
    /\ Goto(c, "l301")
    /\ UNCHANGED <<cfgVars, total_dim, training, frameVars, histVars,
                   raise_seen, walkVars, mixVars>>

\* line 298-299; origin_total_dim is unbound when line 95 saw training
Restore(c) ==
    /\ pc[c] = "l298"
    /\ IF training
       THEN /\ Goto(c, "l301")
            /\ UNCHANGED <<total_dim, raise_seen>>
       ELSE IF origin_bound[c]
            THEN /\ total_dim' = origin_total_dim[c]
                 /\ Goto(c, "l301")
                 /\ UNCHANGED raise_seen
            ELSE /\ Raise(c)
                 /\ UNCHANGED total_dim
    /\ UNCHANGED <<cfgVars, training, frameVars, histVars, walkVars, mixVars>>

\* line 301
Return(c) ==
    /\ pc[c] = "l301"
    /\ Goto(c, "returned")
    /\ UNCHANGED <<cfgVars, total_dim, training, frameVars, histVars,
                   raise_seen, walkVars, mixVars>>

\* the caller goes on after the return or the exception
Resume(c) ==
    /\ pc[c] \in {"returned", "raised"}
    /\ Goto(c, "idle")
    /\ UNCHANGED <<cfgVars, total_dim, training, frameVars, histVars,
                   raise_seen, walkVars, mixVars>>

\* one thread: the call-and-return use of the model
Next ==
    \/ Construct
    \/ SetTraining(1)
    \/ Call(1)
    \/ SaveOrigin(1)
    \/ Overwrite(1)
    \/ RandomWalk(1)
    \/ StateSequences(1)
    \/ Encode(1)
    \/ MemoryAndMixture(1)
    \/ Restore(1)
    \/ Return(1)
    \/ Resume(1)

Spec == InitForward /\ [][Next]_vars

\* several threads calling forward on the same object
NextConc ==
    \/ Construct
    \/ \E c \in Threads : SetTraining(c)
    \/ \E c \in Threads : Call(c)
    \/ \E c \in Threads : SaveOrigin(c)
    \/ \E c \in Threads : Overwrite(c)
    \/ \E c \in Threads : RandomWalk(c)
    \/ \E c \in Threads : StateSequences(c)
    \/ \E c \in Threads : Encode(c)
    \/ \E c \in Threads : MemoryAndMixture(c)
    \/ \E c \in Threads : Restore(c)
    \/ \E c \in Threads : Return(c)
    \/ \E c \in Threads : Resume(c)

SpecConc == InitForward /\ [][NextConc]_vars

----------------------------------------------------------------------------
(* The mixture weights and the choice of a component: one sample and one    *)
(* prediction timestep of the inference branch of forward.  A weight        *)
(* 1 / (dk2 + delta) is held as its denominator; a normalized weight is     *)
(* rounded to a multiple of 1 / Resolution, as a float is rounded to its    *)
(* precision; 1 / 0 is inf, inf / inf is nan and finite / inf is 0.         *)

Neighbours == 0 .. (k_nearest_neighbour - 1)

NaN == [nan |-> TRUE, val |-> 0]

Val(v) == [nan |-> FALSE, val |-> v]

\* line 276 (and 251): dk2 + self.delta
Denominator_NoDelta(d, dl) == d

Denominator(d, dl) == d + dl

RECURSIVE SumTo(_, _)
\* f[0] + ... + f[n]
SumTo(f, n) == IF n < 0 THEN 0 ELSE f[n] + SumTo(f, n - 1)

RECURSIVE ProdTo(_, _)
\* f[0] * ... * f[n]
ProdTo(f, n) == IF n < 0 THEN 1 ELSE f[n] * ProdTo(f, n - 1)

\* a / b rounded to the nearest integer, for a >= 0 and b > 0
RoundDiv(a, b) == (2 * a + b) \div (2 * b)

\* the weights 1 / den[k] as integers over the common denominator ProdTo(den)
Numerators(den) ==
    [k \in DOMAIN den |-> ProdTo(den, k_nearest_neighbour - 1) \div den[k]]

\* line 277 (and 252): wk / torch.sum(wk)
Normalize(den) ==
    IF \E k \in DOMAIN den : den[k] = 0
    THEN [k \in DOMAIN den |-> IF den[k] = 0 THEN NaN ELSE Val(0)]
    ELSE LET n == Numerators(den)
             total == SumTo(n, k_nearest_neighbour - 1)
         IN [k \in DOMAIN den |-> Val(RoundDiv(n[k] * Resolution, total))]

\* line 278: torch.cumsum
Cumsum(nw) ==
    [k \in DOMAIN nw |->
        IF \E j \in 0 .. k : nw[j].nan
        THEN NaN
        ELSE Val(SumTo([j \in DOMAIN nw |-> nw[j].val], k))]

\* cumsum_normalized_wk[k] > rand_sample_value; false for nan
Exceeds(c, u) == ~c.nan /\ c.val > u

\* cumsum_normalized_wk[k] <= rand_sample_value; false for nan
NotAbove(c, u) == ~c.nan /\ c.val <= u

\* line 282-288: the condition under which the loop breaks at sample_knn = k
BreakTest_AtLeast(k, cs, u) ==
    IF k = 0
    THEN ~cs[k].nan /\ cs[k].val >= u
    ELSE (~cs[k].nan /\ cs[k].val >= u) /\ NotAbove(cs[k - 1], u)

BreakTest(k, cs, u) ==
    IF k = 0
    THEN Exceeds(cs[k], u)
    ELSE Exceeds(cs[k], u) /\ NotAbove(cs[k - 1], u)

InitMix ==
    /\ constructed = TRUE
    /\ observe_dim = DefaultObserveDim
    /\ total_dim = InferenceTotalDim
    /\ k_nearest_neighbour \in 1 .. MaxK
    /\ training = FALSE
    /\ pc = [c \in Threads |-> "idle"]
    /\ x_size = [c \in Threads |-> ImageSize]
    /\ origin_total_dim = [c \in Threads |-> 0]
    /\ origin_bound = [c \in Threads |-> FALSE]
    /\ walk_dim = [c \in Threads |-> 0]
    /\ pred_len = [c \in Threads |-> 0]
    /\ pred_encoded = [c \in Threads |-> FALSE]
    /\ cfg_total_dim = DefaultTotalDim
    /\ entry_total_dim = [c \in Threads |-> DefaultTotalDim]
    /\ overlap_seen = FALSE
    /\ raise_seen = FALSE
    /\ mode_raced = FALSE
    /\ IdleWalk
    /\ delta \in 0 .. MaxDelta
    /\ mpc = "l275"
    /\ dk2 \in [Neighbours -> 0 .. MaxDist2]
    /\ wk = <<>>
    /\ normalized_wk = <<>>
    /\ cumsum_normalized_wk = <<>>
    /\ rand_sample_value = 0
    /\ sample_knn = 0

\* line 275-276
Weights ==
    /\ mpc = "l275"
    /\ wk' = [k \in Neighbours |-> Denominator(dk2[k], delta)]
    /\ mpc' = "l277"
    /\ UNCHANGED <<fwdVars, walkVars, delta, dk2, normalized_wk,
                   cumsum_normalized_wk, rand_sample_value, sample_knn>>

\* line 277
NormalizeWeights ==
    /\ mpc = "l277"
    /\ normalized_wk' = Normalize(wk)
    /\ mpc' = "l278"
    /\ UNCHANGED <<fwdVars, walkVars, delta, dk2, wk, cumsum_normalized_wk,
                   rand_sample_value, sample_knn>>

\* line 278
CumulativeSum ==
    /\ mpc = "l278"
    /\ cumsum_normalized_wk' = Cumsum(normalized_wk)
    /\ mpc' = "l279"
    /\ UNCHANGED <<fwdVars, walkVars, delta, dk2, wk, normalized_wk,
                   rand_sample_value, sample_knn>>

\* line 279-281: torch.rand(1) is in [0, 1); the loop starts at 0
DrawUniform ==
    /\ mpc = "l279"
    /\ rand_sample_value' \in 0 .. (Resolution - 1)
    /\ sample_knn' = 0
    /\ mpc' = "l282"
    /\ UNCHANGED <<fwdVars, walkVars, delta, dk2, wk, normalized_wk,
                   cumsum_normalized_wk>>

\* line 282-288: break
LoopBreak ==
    /\ mpc = "l282"
    /\ BreakTest(sample_knn, cumsum_normalized_wk, rand_sample_value)
    /\ mpc' = "l290"
    /\ UNCHANGED <<fwdVars, walkVars, delta, dk2, wk, normalized_wk,
                   cumsum_normalized_wk, rand_sample_value, sample_knn>>

\* line 281: the next value of range(self.k_nearest_neighbour)
LoopContinue ==
    /\ mpc = "l282"
    /\ ~BreakTest(sample_knn, cumsum_normalized_wk, rand_sample_value)
    /\ sample_knn + 1 < k_nearest_neighbour
    /\ sample_knn' = sample_knn + 1
    /\ UNCHANGED <<fwdVars, walkVars, delta, mpc, dk2, wk, normalized_wk,
                   cumsum_normalized_wk, rand_sample_value>>

\* line 281: the range is used up and sample_knn keeps its last value
LoopExhausted ==
    /\ mpc = "l282"
    /\ ~BreakTest(sample_knn, cumsum_normalized_wk, rand_sample_value)
    /\ sample_knn + 1 >= k_nearest_neighbour
    /\ mpc' = "l290"
    /\ UNCHANGED <<fwdVars, walkVars, delta, dk2, wk, normalized_wk,
                   cumsum_normalized_wk, rand_sample_value, sample_knn>>

\* line 290-293: the component t_knn_index[sample_knn] is sampled and decoded
SampleComponent ==
    /\ mpc = "l290"
    /\ mpc' = "done"
    /\ UNCHANGED <<fwdVars, walkVars, delta, dk2, wk, normalized_wk,
                   cumsum_normalized_wk, rand_sample_value, sample_knn>>

NextMix ==
    \/ Weights
    \/ NormalizeWeights
    \/ CumulativeSum
    \/ DrawUniform
    \/ LoopBreak
    \/ LoopContinue
    \/ LoopExhausted
    \/ SampleComponent

SpecMix == InitMix /\ [][NextMix]_vars

----------------------------------------------------------------------------
(* Properties of the mixture weights *)

\* the first index whose cumulative weight exceeds u, the last index if none
FirstExceeding(cs, u) ==
    IF \E k \in Neighbours : Exceeds(cs[k], u)
    THEN CHOOSE k \in Neighbours :
             /\ Exceeds(cs[k], u)
             /\ \A j \in Neighbours : j < k => ~Exceeds(cs[j], u)
    ELSE k_nearest_neighbour - 1

\* C7: the component used for sampling is the first index whose cumulative
\* weight exceeds the draw, it is within 0..K-1, and it is K-1 when no
\* cumulative weight exceeds the draw.
C7_FirstExceedingComponent ==
    /\ mpc \in {"l282", "l290", "done"} => sample_knn \in Neighbours
    /\ mpc \in {"l290", "done"} =>
          sample_knn = FirstExceeding(cumsum_normalized_wk, rand_sample_value)

\* delta > 0, three neighbours, the rounded weights sum to less than 1 and
\* the draw is not below that sum: the loop ran out and the last was taken
C7_Witness ==
    /\ mpc = "done"
    /\ delta > 0
    /\ k_nearest_neighbour = 3
    /\ \A k \in Neighbours : ~Exceeds(cumsum_normalized_wk[k], rand_sample_value)
    /\ sample_knn = 2

Abs(i) == IF i < 0 THEN -i ELSE i

\* C8: with delta > 0 every weight has a positive denominator (it is defined
\* and positive), the normalized weights sum to 1 within the rounding of K
\* weights, and with all distances equal every normalized weight is 1/K
\* (exactly before rounding, and to the rounding step after it).
C8_WeightsNormalized ==
    (delta > 0 /\ mpc \notin {"idle", "l275", "l277"}) =>
        /\ \A k \in Neighbours :
              /\ wk[k] > 0
              /\ ~normalized_wk[k].nan
              /\ normalized_wk[k].val >= 0
        /\ 2 * Abs(SumTo([k \in Neighbours |-> normalized_wk[k].val],
                         k_nearest_neighbour - 1) - Resolution)
              <= k_nearest_neighbour
        /\ (\A j, k \in Neighbours : dk2[j] = dk2[k]) =>
              \A k \in Neighbours :
                  /\ Numerators(wk)[k] * k_nearest_neighbour
                        = SumTo(Numerators(wk), k_nearest_neighbour - 1)
                  /\ 2 * Abs(normalized_wk[k].val * k_nearest_neighbour - Resolution)
                        <= k_nearest_neighbour

\* all three neighbours at distance zero, delta > 0: equal weights
C8_Witness ==
    /\ mpc = "l278"
    /\ delta > 0
    /\ k_nearest_neighbour = 3
    /\ \A k \in Neighbours : dk2[k] = 0
    /\ \A k \in Neighbours : normalized_wk[k] = Val(RoundDiv(Resolution, 3))

----------------------------------------------------------------------------
(* Properties of __init__ and forward *)

\* the relations the configuration is required to satisfy
ValidConfig ==
    /\ cfg_total_dim >= observe_dim
    /\ observe_dim >= 1
    /\ k_nearest_neighbour <= observe_dim

\* the lines of an inference call between the overwrite and the restore
Overwritten(c) == pc[c] \in {"l124", "l139", "l171", "l227", "l298"}

\* C3: an inference call holds total_dim at 512 from line 97 to line 298 and
\* returns with the value total_dim had when the call began; a training call
\* never changes total_dim.
C3_InferenceHorizonRestored ==
    /\ (~training /\ Overwritten(1)) => total_dim = InferenceTotalDim
    /\ pc[1] \in {"l301", "returned"} => total_dim = entry_total_dim[1]
    /\ (training /\ InCall(1)) => total_dim = entry_total_dim[1]

\* an inference call that has returned, with the horizon back at a
\* configured value other than 512
C3_Witness ==
    /\ pc[1] = "returned"
    /\ ~training
    /\ origin_bound[1]
    /\ walk_dim[1] = InferenceTotalDim
    /\ total_dim = cfg_total_dim
    /\ total_dim # InferenceTotalDim

\* C4: a configuration with K > observe_dim, observe_dim < 1 or
\* observe_dim > total_dim is refused by the constructor, so no model object
\* and no forward call exists for it.
C4_InvalidConfigRejected ==
    constructed => ValidConfig

\* C5: a forward call that raises leaves total_dim as it was when the call
\* began (stated for valid configurations, where the exception comes from
\* the input).
C5_RaiseLeavesHorizon ==
    (ValidConfig /\ pc[1] = "raised") => total_dim = entry_total_dim[1]

\* C10: total_dim is the configured horizon or 512; and a call saves or is
\* left with a horizon other than the configured one only after two calls
\* have overlapped (or a call has raised, or the mode was changed under a
\* call). The overlap that does it is the witness.
C10_WrongHorizonNeedsOverlap ==
    constructed =>
        /\ total_dim \in {cfg_total_dim, InferenceTotalDim}
        /\ (~overlap_seen /\ ~raise_seen /\ ~mode_raced) =>
              /\ (\A c \in Threads : ~InCall(c)) => total_dim = cfg_total_dim
              /\ \A c \in Threads :
                    /\ InCall(c) => entry_total_dim[c] = cfg_total_dim
                    /\ origin_bound[c] => origin_total_dim[c] = cfg_total_dim
                    /\ (training /\ pc[c] \in {"l139", "l171", "l227", "l298"})
                          => walk_dim[c] = cfg_total_dim

\* two overlapping inference calls: the second saved 512 as the original
\* horizon, both have returned, and total_dim is left at 512
C10_Witness ==
    /\ overlap_seen
    /\ ~raise_seen
    /\ ~mode_raced
    /\ ~training
    /\ \A c \in Threads : pc[c] = "returned"
    /\ cfg_total_dim # InferenceTotalDim
    /\ origin_total_dim[1] = cfg_total_dim
    /\ origin_total_dim[2] = InferenceTotalDim
    /\ total_dim = InferenceTotalDim

----------------------------------------------------------------------------
(* Properties of random_walk *)

PrevPos == position[index_sample][t - 1]

\* C1: both coordinates of the position at every timestep of every sample
\* lie in 0..8.
C1_PositionInGrid ==
    \A s \in Samples : \A k \in 0 .. (total_dim - 1) :
        /\ position[s][k][1] \in 0 .. 8
        /\ position[s][k][2] \in 0 .. 8

\* a finished walk that ran into the right edge and stands on it
C1_Witness ==
    /\ wpc = "done"
    /\ \E k \in 1 .. (total_dim - 1) :
          /\ action_selection[0][k] = StopLabel
          /\ action_selection[0][k - 1] = 0
          /\ position[0][k][2] = 8

\* C2: at every timestep t >= 1 labelled "stop" the position equals the
\* position at t-1, whatever the cause of the stop.
C2_StopHoldsPosition ==
    \A s \in Samples : \A k \in 1 .. (total_dim - 1) :
        action_selection[s][k] = StopLabel => position[s][k] = position[s][k - 1]

\* a finished walk with a stop of each kind: a zero duration at step 1, a
\* boundary hit at step 3 and the drained step after it
C2_Witness ==
    /\ wpc = "done"
    /\ action_selection[0][1] = StopLabel
    /\ action_selection[0][2] \in Moves
    /\ action_selection[0][3] = StopLabel
    /\ action_selection[0][4] = StopLabel
    /\ seg_start = 2
    /\ seg_hit = 3
    /\ seg_dur = 3

\* C6: in the sampling loop some direction always passes the boundary test,
\* and under fair draws the loop exits and random_walk returns.
C6_RejectionLoopTerminates ==
    /\ [](wpc = "while" => \E a \in Moves : ~Rejected(a, PrevPos[1], PrevPos[2]))
    /\ <>(wpc = "done")

\* a finished walk that started in a corner and left it with its first step
C6_Witness ==
    /\ wpc = "done"
    /\ position[0][0] = <<GridMax, GridMax>>
    /\ action_selection[0][1] \in {1, 2}

\* C9: after a boundary hit every later step of the segment is a stop with
\* the position held, the counter goes down by one on every step, nothing is
\* drawn before it is at or below zero, and a segment of duration d >= 1
\* spans exactly d timesteps unless the horizon ends it.
C9_SegmentDrainsAfterHit ==
    (seg_start >= 1 /\ index_sample \in Samples) =>
        /\ action_duriation = seg_dur - (t - seg_start)
        /\ seg_hit > 0 =>
              \A k \in seg_hit .. (t - 1) :
                  /\ action_selection[index_sample][k] = StopLabel
                  /\ position[index_sample][k] = position[index_sample][k - 1]
        /\ wpc \in {"while", "poisson"} =>
              /\ action_duriation <= 0
              /\ seg_dur >= 1 => t - seg_start = seg_dur
        /\ (wpc = "top" /\ ~new_continue_action_flag) => t - seg_start < seg_dur
        /\ (seg_dur >= 1 /\ t < total_dim /\ wpc = "top" /\ new_continue_action_flag)
              => t - seg_start = seg_dur

\* a segment of duration 3 that hit the boundary on its second step and is
\* over after exactly three steps, the next one about to be drawn
C9_Witness ==
    /\ wpc = "while"
    /\ seg_dur = 3
    /\ seg_hit = seg_start + 1
    /\ t = seg_start + 3
    /\ action_selection[index_sample][t - 1] = StopLabel

\* C11: an action and a duration are drawn at step t >= 1 exactly when
\* t = 1 or the counter was at or below zero after step t-1; every step of
\* the segment applies the action that was drawn (or the stop that stands
\* for it), for as many steps as the drawn duration; a drawn duration of 0
\* takes one step, a stop with the position held, and the next step draws.
C11_DrawExactlyWhenCounterSpent ==
    index_sample \in Samples =>
        /\ (wpc = "top" /\ t >= 1) =>
              (new_continue_action_flag <=> (t = 1 \/ action_duriation <= 0))
        /\ wpc \in {"while", "poisson"} => (t = 1 \/ action_duriation <= 0)
        /\ (wpc = "apply" /\ t > seg_start) => action_duriation > 0
        /\ (seg_start >= 1 /\ wpc \in {"apply", "top"}) =>
              /\ t - seg_start <= (IF seg_dur = 0 THEN 1 ELSE seg_dur)
              /\ \A k \in seg_start .. (t - 1) :
                    action_selection[index_sample][k] =
                        (IF seg_dur = 0 \/ (seg_hit > 0 /\ k >= seg_hit)
                         THEN StopLabel ELSE action_random_selection)
        /\ (seg_start >= 1 /\ seg_dur = 0 /\ wpc = "top") =>
              /\ t = seg_start + 1
              /\ new_continue_action_flag
              /\ position[index_sample][seg_start] = position[index_sample][seg_start - 1]

\* a zero duration drawn at step 1 took that one step as a stop, and step 2
\* is drawing again; the rejected draw shows in action_random_selection
C11_Witness ==
    /\ wpc = "while"
    /\ t = 2
    /\ seg_start = 1
    /\ seg_dur = 0
    /\ action_selection[index_sample][1] = StopLabel
    /\ position[index_sample][1] = position[index_sample][0]

\* C12: at every timestep the crop window of the position, rows
\* 3h .. 3h+7 and columns 3w .. 3w+7, lies inside the 32 x 32 image, so the
\* mask of each sample selects exactly 3 * 8 * 8 pixels.
C12_CropInsideImage ==
    /\ \A s \in Samples : \A k \in DOMAIN position[s] :
          /\ 0 <= CropStart(position[s][k][1])
          /\ CropStart(position[s][k][1]) + PatchSize <= ImageSize
          /\ 0 <= CropStart(position[s][k][2])
          /\ CropStart(position[s][k][2]) + PatchSize <= ImageSize
    /\ wpc = "cropped" =>
          \A s \in Samples : \A k \in 0 .. (total_dim - 1) :
              index_mask_pixels[s][k] = Channels * PatchSize * PatchSize

\* the masks of a walk that ends in the far corner, where the window ends
\* on the last row and the last column of the image
C12_Witness ==
    /\ wpc = "cropped"
    /\ position[0][total_dim - 1] = <<GridMax, GridMax>>
    /\ position[0][total_dim - 2] # <<GridMax, GridMax>>
    /\ CropStart(GridMax) + PatchSize = ImageSize
    /\ index_mask_pixels[0][total_dim - 1] = 192

\* C13: the first step of a freshly sampled segment whose drawn duration is
\* at least 1 is never a forced boundary stop: it moves one cell in the
\* sampled direction and records the sampled label 0..3; a forced stop can
\* only be the second or a later step of its segment.
C13_FirstStepMoves ==
    (index_sample \in Samples /\ seg_start >= 1) =>
        /\ (wpc = "apply" /\ t = seg_start /\ seg_dur >= 1) =>
              /\ ~need_to_stop
              /\ action_duriation > 0
              /\ ~HitsBoundary(action_random_selection, PrevPos[1], PrevPos[2])
        /\ (wpc = "top" /\ t = seg_start + 1 /\ seg_dur >= 1) =>
              /\ action_random_selection \in Moves
              /\ action_selection[index_sample][seg_start] = action_random_selection
              /\ position[index_sample][seg_start][1] =
                     position[index_sample][seg_start - 1][1]
                         + Displacement(action_random_selection)[1]
              /\ position[index_sample][seg_start][2] =
                     position[index_sample][seg_start - 1][2]
                         + Displacement(action_random_selection)[2]
              /\ ~need_to_stop
              /\ seg_hit = 0
        /\ (wpc \in {"apply", "top"} /\ seg_hit > 0) =>
              /\ seg_dur >= 2
              /\ seg_hit > seg_start
              /\ action_selection[index_sample][seg_hit] = StopLabel

\* the first step of a segment drawn in the corner <<0, 0>>, where two of
\* the four directions were excluded by the sampling loop
C13_Witness ==
    /\ wpc = "top" /\ t = seg_start + 1 /\ seg_start >= 1 /\ seg_dur >= 1
    /\ position[index_sample][seg_start - 1] = <<0, 0>>
    /\ action_selection[index_sample][seg_start] \in {0, 3}
    /\ position[index_sample][seg_start] # <<0, 0>>

====
